---- MODULE Spec2Model ----
(***************************************************************************)
(* Model of spicelib's AscEditor (src/spicelib/editor/asc_editor.py): the  *)
(* line-oriented parser (reset_netlist), the serializer (save_netlist) and *)
(* the mutation API working on the in-memory schematic model.              *)
(*                                                                         *)
(* A file is a sequence of lines.  A line is the record                    *)
(*     [kw |-> keyword, n |-> integer fields, t |-> string fields,         *)
(*      w |-> the free text of a TEXT record, as a string]                 *)
(* i.e. the line cut into its fields; the blanks between fields and the    *)
(* line terminator are not represented.                                    *)
(*   WIRE x1 y1 x2 y2        n = <<x1,y1,x2,y2>>                           *)
(*   FLAG x y label          n = <<x,y>>      t = <<label>>                *)
(*   SYMBOL sym x y rot      n = <<x,y>>      t = <<sym, rot>>             *)
(*   WINDOW k x y align sz   n = <<x,y>>      t = <<k, align, sz>>         *)
(*   SYMATTR name rest       t = <<name, rest>>                            *)
(*   TEXT x y align sz Ttxt  n = <<x,y,sz>>   t = <<align, T>>  w = txt    *)
(*   Version v               t = <<v>>                                     *)
(*   SHEET rest              n = the integers of rest, t = <<form>>        *)
(***************************************************************************)
EXTENDS Integers, Sequences, FiniteSets, TLC

VARIABLES
    disk,        \* content of the file at self._asc_file_path
    parts,       \* number of external edits made to that file
    version,     \* self.version
    sheet,       \* self.sheet
    wires,       \* self._wires
    labels,      \* self._labels
    directives,  \* self._directives
    components,  \* self._components (insertion-ordered mapping)
    ret          \* the last call: its name, arguments and outcome

vars == <<disk, parts, version, sheet, wires, labels, directives, components, ret>>

model == [version |-> version, sheet |-> sheet, wires |-> wires,
          labels |-> labels, directives |-> directives,
          components |-> components]

\* Largest number of external edits (appended snippets) of the file.
MaxParts == 2

---------------------------------------------------------------------------
(* Lines *)

L(kw, n, t, w) == [kw |-> kw, n |-> n, t |-> t, w |-> w]

WireLine(x1, y1, x2, y2) == L("WIRE", <<x1, y1, x2, y2>>, <<>>, "")
FlagLine(x, y, text) == L("FLAG", <<x, y>>, <<text>>, "")
SymbolLine(symbol, x, y, rotation) == L("SYMBOL", <<x, y>>, <<symbol, rotation>>, "")
WindowLine(num, x, y, alignment, size) == L("WINDOW", <<x, y>>, <<num, alignment, size>>, "")
SymattrLine(name, text) == L("SYMATTR", <<>>, <<name, text>>, "")
TextLine(x, y, alignment, size, type, text) == L("TEXT", <<x, y, size>>, <<alignment, type>>, text)
VersionLine(v) == L("Version", <<>>, <<v>>, "")
SheetLine(form, f) == L("SHEET", f, <<form>>, "")

---------------------------------------------------------------------------
(* Strings: the str methods the editor uses, character by character *)

RECURSIVE Upper(_)
\* str.upper()
Upper(s) ==
    IF s = "" THEN ""
    ELSE LET c == SubSeq(s, 1, 1)
             lower == "abcdefghijklmnopqrstuvwxyz"
             upper == "ABCDEFGHIJKLMNOPQRSTUVWXYZ"
             hit == {i \in 1..26 : SubSeq(lower, i, i) = c}
             u == IF hit = {} THEN c
                  ELSE LET i == CHOOSE j \in hit : TRUE IN SubSeq(upper, i, i)
         IN u \o Upper(SubSeq(s, 2, Len(s)))

\* str.startswith(p)
StartsWith(s, p) == Len(s) >= Len(p) /\ SubSeq(s, 1, Len(p)) = p

\* p in s
Contains(s, p) ==
    \E i \in 1..(Len(s) - Len(p) + 1) : SubSeq(s, i, i + Len(p) - 1) = p

RECURSIVE LStrip(_)
LStrip(s) ==
    IF s # "" /\ SubSeq(s, 1, 1) = " " THEN LStrip(SubSeq(s, 2, Len(s))) ELSE s

RECURSIVE RStrip(_)
RStrip(s) ==
    IF s # "" /\ SubSeq(s, Len(s), Len(s)) = " "
    THEN RStrip(SubSeq(s, 1, Len(s) - 1)) ELSE s

\* str.strip()
Strip(s) == RStrip(LStrip(s))

RECURSIVE UntilBlank(_)
\* the longest prefix of s holding no blank
UntilBlank(s) ==
    IF s = "" \/ SubSeq(s, 1, 1) = " " THEN ""
    ELSE SubSeq(s, 1, 1) \o UntilBlank(SubSeq(s, 2, Len(s)))

\* s.split() is empty
NoWords(s) == LStrip(s) = ""

\* s.split()[0], for a string with a word in it
FirstWord(s) == UntilBlank(LStrip(s))

---------------------------------------------------------------------------
(* Alignment and rotation encodings *)

\* ASC_ROTATION_DICT: rotation token -> ERotation (the angle in degrees)
ASC_ROTATION_TOKENS == {"R0", "R90", "R180", "R270"}

ASC_ROTATION_DICT(tok) ==
    CASE tok = "R0" -> 0
      [] tok = "R90" -> 90
      [] tok = "R180" -> 180
      [] tok = "R270" -> 270

ASC_INV_ROTATION_DICT(rot) ==
    CHOOSE tok \in ASC_ROTATION_TOKENS : ASC_ROTATION_DICT(tok) = rot

\* asc_text_align_set: the (textAlignment, verticalAlignment) pair of a token
asc_text_align_set(alignment) ==
    CASE alignment = "Left" -> <<"LEFT", "CENTER">>
      [] alignment = "Center" -> <<"CENTER", "CENTER">>
      [] alignment = "Right" -> <<"RIGHT", "CENTER">>
      [] alignment = "VTop" -> <<"CENTER", "TOP">>
      [] alignment = "VCenter" -> <<"CENTER", "CENTER">>
      [] alignment = "VBottom" -> <<"LEFT", "BOTTOM">>
      [] OTHER -> <<"LEFT", "BOTTOM">>

\* asc_text_align_get: the token written for a (textAlignment, verticalAlignment) pair
asc_text_align_get(ha, va) ==
    IF va = "CENTER"
    THEN IF ha = "RIGHT" THEN "Right"
         ELSE IF ha = "CENTER" THEN "Center"
         ELSE "Left"
    ELSE IF va = "TOP" THEN "VTop"
         ELSE IF va = "CENTER" THEN "VCenter"
         ELSE IF va = "BOTTOM" THEN "VBottom"
         ELSE "Left"

\* TEXT_REGEX.match(line): x, y, an alignment among Left|Right|Top|Bottom in
\* any case, an unsigned size, a type tag among ! and ; and the text
TEXT_REGEX_match(line) ==
    /\ line.kw = "TEXT"
    /\ Len(line.n) = 3
    /\ line.n[3] >= 0
    /\ Len(line.t) = 2
    /\ Upper(line.t[1]) \in {"LEFT", "RIGHT", "TOP", "BOTTOM"}
    /\ line.t[2] \in {"!", ";"}

---------------------------------------------------------------------------
(* The schematic model *)

\* SchematicComponent(): the accumulator of the parser; open = FALSE stands
\* for `component is None`, hasRef = FALSE for `component.reference is None`
NoComponent ==
    [open |-> FALSE, hasRef |-> FALSE, reference |-> "", symbol |-> "",
     position |-> <<0, 0>>, rotation |-> 0, attributes |-> <<>>]

\* a plain (string) attribute of a component
StrAttr(name, value) ==
    [name |-> name, isText |-> FALSE, value |-> value, text |-> "",
     coord |-> <<0, 0>>, textAlignment |-> "", verticalAlignment |-> ""]

\* a WINDOW attribute: Text(coord=coord, text=num_ref, size=size), aligned
WindowAttr(num_ref, coord, alignment, size) ==
    [name |-> "WINDOW " \o num_ref, isText |-> TRUE, value |-> size,
     text |-> num_ref, coord |-> coord,
     textAlignment |-> asc_text_align_set(alignment)[1],
     verticalAlignment |-> asc_text_align_set(alignment)[2]]

\* a directive: Text(coord=coord, text=text, size=size), aligned
DirectiveText(coord, text, size, alignment) ==
    [coord |-> coord, text |-> text, size |-> size,
     textAlignment |-> asc_text_align_set(alignment)[1],
     verticalAlignment |-> asc_text_align_set(alignment)[2]]

\* index of the entry of an insertion-ordered mapping with the given key, or 0
IndexOfName(attrs, name) ==
    IF \E i \in 1..Len(attrs) : attrs[i].name = name
    THEN CHOOSE i \in 1..Len(attrs) : attrs[i].name = name
    ELSE 0

IndexOfRef(comps, reference) ==
    IF \E i \in 1..Len(comps) : comps[i].reference = reference
    THEN CHOOSE i \in 1..Len(comps) : comps[i].reference = reference
    ELSE 0

\* component.attributes[a.name] = a
PutAttribute(attrs, a) ==
    LET i == IndexOfName(attrs, a.name)
    IN IF i = 0 THEN Append(attrs, a) ELSE [attrs EXCEPT ![i] = a]

\* self._components[c.reference] = c
PutComponent(comps, c) ==
    LET i == IndexOfRef(comps, c.reference)
        e == [reference |-> c.reference, symbol |-> c.symbol,
              position |-> c.position, rotation |-> c.rotation,
              attributes |-> c.attributes]
    IN IF i = 0 THEN Append(comps, e) ELSE [comps EXCEPT ![i] = e]

\* "Value" in component.attributes
HasValue(c) == IndexOfName(c.attributes, "Value") # 0

---------------------------------------------------------------------------
(* reset_netlist: the parser *)

\* AscEditor.__init__: self.version = 4 (an int), self.sheet = (0, 0) (a tuple)
InitVersion == [type |-> "int", v |-> "4"]
InitSheet == [type |-> "tuple", form |-> "repr", f |-> <<0, 0>>]

\* BaseEditor.reset_netlist: empties the four collections of the model
BaseReset(m) ==
    [m EXCEPT !.wires = <<>>, !.labels = <<>>, !.directives = <<>>,
              !.components = <<>>]

\* the parser's state: the model being filled, the open component, the error raised
ParserStart(m) ==
    [version |-> m.version, sheet |-> m.sheet, wires |-> m.wires,
     labels |-> m.labels, directives |-> m.directives,
     components |-> m.components, component |-> NoComponent, err |-> "none"]

Raise(ps, kind) == [ps EXCEPT !.err = kind]

\* the SYMBOL branch
ParseSymbol(ps, line) ==
    IF Len(line.n) # 2 \/ Len(line.t) # 2 THEN Raise(ps, "ValueError")
    ELSE IF ps.component.open /\ ~ps.component.hasRef THEN Raise(ps, "AssertionError")
    ELSE LET committed ==
                 IF ps.component.open
                 THEN PutComponent(ps.components, ps.component)
                 ELSE ps.components
             fresh == [NoComponent EXCEPT !.open = TRUE, !.symbol = line.t[1],
                                          !.position = <<line.n[1], line.n[2]>>]
         IN IF line.t[2] \in ASC_ROTATION_TOKENS
            THEN [ps EXCEPT !.components = committed,
                            !.component = [fresh EXCEPT !.rotation = ASC_ROTATION_DICT(line.t[2])]]
            ELSE [ps EXCEPT !.components = committed, !.component = fresh,
                            !.err = "ValueError"]

\* the WINDOW branch
ParseWindow(ps, line) ==
    IF ~ps.component.open THEN Raise(ps, "AssertionError")
    ELSE IF Len(line.n) # 2 \/ Len(line.t) # 3 THEN Raise(ps, "ValueError")
    ELSE [ps EXCEPT !.component.attributes =
              PutAttribute(@, WindowAttr(line.t[1], <<line.n[1], line.n[2]>>,
                                         line.t[2], line.t[3]))]

\* the SYMATTR branch
ParseSymattr(ps, line) ==
    IF ~ps.component.open THEN Raise(ps, "AssertionError")
    ELSE IF Len(line.t) # 2 \/ NoWords(line.t[2]) THEN Raise(ps, "ValueError")
    ELSE IF line.t[1] = "InstName"
         THEN [ps EXCEPT !.component.reference = Strip(line.t[2]),
                         !.component.hasRef = TRUE]
         ELSE [ps EXCEPT !.component.attributes =
                   PutAttribute(@, StrAttr(line.t[1], Strip(line.t[2])))]

\* the TEXT branch: a line TEXT_REGEX does not match adds nothing and raises nothing
ParseText(ps, line) ==
    IF TEXT_REGEX_match(line)
    THEN LET size == IF line.t[2] # "!" THEN -line.n[3] ELSE line.n[3]
         IN [ps EXCEPT !.directives =
                 Append(@, DirectiveText(<<line.n[1], line.n[2]>>, Strip(line.w),
                                         size, line.t[1]))]
    ELSE ps

\* the WIRE branch
ParseWire(ps, line) ==
    IF Len(line.n) # 4 \/ Len(line.t) # 0 THEN Raise(ps, "ValueError")
    ELSE [ps EXCEPT !.wires =
              Append(@, [V1 |-> <<line.n[1], line.n[2]>>, V2 |-> <<line.n[3], line.n[4]>>])]

\* the FLAG branch
ParseFlag(ps, line) ==
    IF Len(line.n) # 2 \/ Len(line.t) # 1 \/ Contains(line.t[1], " ")
    THEN Raise(ps, "ValueError")
    ELSE [ps EXCEPT !.labels =
              Append(@, [coord |-> <<line.n[1], line.n[2]>>, text |-> line.t[1]])]

\* the Version branch
ParseVersion(ps, line) ==
    IF Len(line.t) # 1 THEN Raise(ps, "ValueError")
    ELSE IF line.t[1] \notin {"4"} THEN Raise(ps, "AssertionError")
    ELSE [ps EXCEPT !.version = [type |-> "str", v |-> line.t[1]]]

\* the SHEET branch: the rest of the line, kept as a string
ParseSheet(ps, line) ==
    [ps EXCEPT !.sheet = [type |-> "str", form |-> line.t[1], f |-> line.n]]

\* one iteration of `for line in asc_file`
ParseLine(ps, line) ==
    CASE line.kw = "SYMBOL" -> ParseSymbol(ps, line)
      [] line.kw = "WINDOW" -> ParseWindow(ps, line)
      [] line.kw = "SYMATTR" -> ParseSymattr(ps, line)
      [] line.kw = "TEXT" -> ParseText(ps, line)
      [] line.kw = "WIRE" -> ParseWire(ps, line)
      [] line.kw = "FLAG" -> ParseFlag(ps, line)
      [] line.kw = "Version" -> ParseVersion(ps, line)
      [] line.kw = "SHEET" -> ParseSheet(ps, line)
      [] OTHER -> Raise(ps, "NotImplementedError")

RECURSIVE ParseLines(_, _, _)
\* the loop over the lines from line i on; it ends at the first error
ParseLines(ps, file, i) ==
    IF i > Len(file) \/ ps.err # "none" THEN ps
    ELSE ParseLines(ParseLine(ps, file[i]), file, i + 1)

\* the end of the input without the commit of the open component
ParseEndUncommitted(ps) ==
    IF ps.err # "none" \/ ~ps.component.open THEN ps
    ELSE IF ~ps.component.hasRef THEN Raise(ps, "AssertionError")
    ELSE ps

\* after the loop: the last open component is committed
ParseEnd(ps) ==
    IF ps.err # "none" \/ ~ps.component.open THEN ps
    ELSE IF ~ps.component.hasRef THEN Raise(ps, "AssertionError")
    ELSE [ps EXCEPT !.components = PutComponent(@, ps.component)]

\* reset_netlist on the model m with `file` at self._asc_file_path
ParseFile(m, file) == ParseEnd(ParseLines(ParserStart(BaseReset(m)), file, 1))

\* the model held by a parser state
ModelOf(ps) ==
    [version |-> ps.version, sheet |-> ps.sheet, wires |-> ps.wires,
     labels |-> ps.labels, directives |-> ps.directives,
     components |-> ps.components]

---------------------------------------------------------------------------
(* save_netlist: the serializer *)

RECURSIVE Flatten(_)
\* the concatenation of a sequence of sequences
Flatten(ss) == IF ss = <<>> THEN <<>> ELSE Head(ss) \o Flatten(Tail(ss))


\* the lines of one component: SYMBOL, its WINDOW lines, InstName, the other attributes
ComponentLines(c) ==
    LET IsWindow(a) == StartsWith(a.name, "WINDOW") /\ a.isText
        IsOther(a) == ~StartsWith(a.name, "WINDOW")
        windows == SelectSeq(c.attributes, IsWindow)
        others == SelectSeq(c.attributes, IsOther)
    IN <<SymbolLine(c.symbol, c.position[1], c.position[2],
                    ASC_INV_ROTATION_DICT(c.rotation))>>
       \o [i \in 1..Len(windows) |->
              WindowLine(SubSeq(windows[i].name, 8, Len(windows[i].name)),
                         windows[i].coord[1], windows[i].coord[2],
                         asc_text_align_get(windows[i].textAlignment,
                                            windows[i].verticalAlignment),
                         windows[i].value)]
       \o <<SymattrLine("InstName", c.reference)>>
       \o [i \in 1..Len(others) |-> SymattrLine(others[i].name, others[i].value)]

\* the TEXT line of one directive
DirectiveLine(d) ==
    LET alignment == asc_text_align_get(d.textAlignment, d.verticalAlignment)
    IN IF d.size < 0
       THEN TextLine(d.coord[1], d.coord[2], alignment, -d.size, "?", d.text)
       ELSE TextLine(d.coord[1], d.coord[2], alignment, d.size, "!", d.text)

\* the file save_netlist writes for the model m
Serialize(m) ==
    <<VersionLine(m.version.v), SheetLine(m.sheet.form, m.sheet.f)>>
    \o [i \in 1..Len(m.wires) |->
           WireLine(m.wires[i].V1[1], m.wires[i].V1[2],
                    m.wires[i].V2[1], m.wires[i].V2[2])]
    \o [i \in 1..Len(m.labels) |->
           FlagLine(m.labels[i].coord[1], m.labels[i].coord[2], m.labels[i].text)]
    \o Flatten([i \in 1..Len(m.components) |-> ComponentLines(m.components[i])])
    \o [i \in 1..Len(m.directives) |-> DirectiveLine(m.directives[i])]

---------------------------------------------------------------------------
(* The mutation API.  Each operation is an operator from the model (and    *)
(* its arguments) to the outcome                                           *)
(*     [m |-> the model afterwards, err |-> the exception raised or        *)
(*      "none", msg |-> what the exception says, val |-> the value         *)
(*      returned]                                                          *)

Outcome(m, err, msg, val) == [m |-> m, err |-> err, msg |-> msg, val |-> val]

\* an argument that is a str (s) or a number (n)
Str(s) == [num |-> FALSE, s |-> s, n |-> 0]
Num(n) == [num |-> TRUE, s |-> "", n |-> n]

Min(a, b) == IF a < b THEN a ELSE b
Max(a, b) == IF a > b THEN a ELSE b

RECURSIVE Exp1000(_)
\* floor(log(n, 1000)) for n >= 1
Exp1000(n) == IF n < 1000 THEN 0 ELSE 1 + Exp1000(n \div 1000)

RECURSIVE Pow1000(_)
Pow1000(e) == IF e = 0 THEN 1 ELSE 1000 * Pow1000(e - 1)

RECURSIVE FracDigits(_, _)
\* the decimal digits of r / scale (r < scale), without trailing zeros
FracDigits(r, scale) ==
    IF r = 0 THEN ""
    ELSE ToString(r \div (scale \div 10))
         \o FracDigits(r % (scale \div 10), scale \div 10)

\* format_eng(n), for a natural number n of at most six significant digits:
\* the mantissa in %g form followed by the suffix of its power of 1000
format_eng(n) ==
    IF n = 0 THEN "0"
    ELSE LET e == Exp1000(n)
             scale == Pow1000(e)
             suffix == CASE e = 0 -> "" [] e = 1 -> "k" [] e = 2 -> "Meg"
                         [] e = 3 -> "G" [] OTHER -> "T"
             frac == FracDigits(n % scale, scale)
         IN ToString(n \div scale)
            \o (IF frac = "" THEN "" ELSE "." \o frac) \o suffix

\* str(value)
StrOf(value) == IF value.num THEN ToString(value.n) ELSE value.s

\* the starting values of _get_text_space, and the text-line increment
FarAway == 100000
TextLineStep == 24

RECURSIVE WiresBox(_, _, _)
\* the loop over self._wires, from wire i on
WiresBox(box, ws, i) ==
    IF i > Len(ws) THEN box
    ELSE WiresBox([min_x |-> Min(Min(box.min_x, ws[i].V1[1]), ws[i].V2[1]),
                   max_x |-> Max(Max(box.max_x, ws[i].V1[1]), ws[i].V2[1]),
                   min_y |-> Min(Min(box.min_y, ws[i].V1[2]), ws[i].V2[1]),
                   max_y |-> Max(Max(box.max_y, ws[i].V1[2]), ws[i].V2[1])],
                  ws, i + 1)

RECURSIVE PointsBox(_, _, _)
\* the loops over the labels, the directives and the components: ps is the
\* sequence of their coordinates
PointsBox(box, ps, i) ==
    IF i > Len(ps) THEN box
    ELSE PointsBox([min_x |-> Min(box.min_x, ps[i][1]),
                    max_x |-> Max(box.max_x, ps[i][1]),
                    min_y |-> Min(box.min_y, ps[i][2]),
                    max_y |-> Max(box.max_y, ps[i][2])],
                   ps, i + 1)

\* _get_text_space: [err, x, y]
get_text_space(m) ==
    IF m.sheet.type # "str"
    THEN [err |-> "AttributeError", x |-> 0, y |-> 0]
    ELSE IF m.sheet.form # "plain" \/ Len(m.sheet.f) # 3
    THEN [err |-> "ValueError", x |-> 0, y |-> 0]
    ELSE LET b0 == [min_x |-> Min(FarAway, m.sheet.f[2]), max_x |-> -FarAway,
                    min_y |-> Min(FarAway, m.sheet.f[3]), max_y |-> -FarAway]
             b1 == WiresBox(b0, m.wires, 1)
             b2 == PointsBox(b1, [i \in 1..Len(m.labels) |-> m.labels[i].coord], 1)
             b3 == PointsBox(b2, [i \in 1..Len(m.directives) |-> m.directives[i].coord], 1)
             b4 == PointsBox(b3, [i \in 1..Len(m.components) |-> m.components[i].position], 1)
         IN [err |-> "none", x |-> b4.min_x, y |-> b4.max_y + TextLineStep]

\* get_component_info: the index of the component, or ComponentNotFoundError
get_component_info(m, component) ==
    LET i == IndexOfRef(m.components, component)
    IN IF i = 0
       THEN [err |-> "ComponentNotFoundError", msg |-> "not found in ASC file", i |-> 0]
       ELSE [err |-> "none", msg |-> "", i |-> i]

\* get_component_value
get_component_value(m, element) ==
    LET info == get_component_info(m, element)
    IN IF info.err # "none" THEN Outcome(m, info.err, info.msg, "")
       ELSE IF ~HasValue(m.components[info.i])
       THEN Outcome(m, "ComponentNotFoundError", "does not have a Value attribute", "")
       ELSE LET attrs == m.components[info.i].attributes
            IN Outcome(m, "none", "", attrs[IndexOfName(attrs, "Value")].value)

\* set_component_value storing str(value): a number is not put in engineering notation
set_component_value_unformatted(m, device, value) ==
    LET info == get_component_info(m, device)
    IN IF info.err # "none" THEN Outcome(m, info.err, info.msg, "")
       ELSE IF HasValue(m.components[info.i])
       THEN Outcome([m EXCEPT !.components[info.i].attributes =
                        PutAttribute(@, StrAttr("Value", StrOf(value)))],
                    "none", "", "")
       ELSE Outcome(m, "ComponentNotFoundError", "does not have a Value attribute", "")

\* set_component_value
set_component_value(m, device, value) ==
    LET info == get_component_info(m, device)
    IN IF info.err # "none" THEN Outcome(m, info.err, info.msg, "")
       ELSE IF HasValue(m.components[info.i])
       THEN LET value_str == IF ~value.num THEN value.s ELSE format_eng(value.n)
            IN Outcome([m EXCEPT !.components[info.i].attributes =
                            PutAttribute(@, StrAttr("Value", value_str))],
                       "none", "", "")
       ELSE Outcome(m, "ComponentNotFoundError", "does not have a Value attribute", "")

\* UNIQUE_SIMULATION_DOT_INSTRUCTIONS: the keywords of which a netlist holds one
UNIQUE_SIMULATION_DOT_INSTRUCTIONS == {".AC", ".DC", ".TRAN", ".NOISE", ".OP", ".TF"}

\* re.compile(PARAM_REGEX % param, re.IGNORECASE).search(text): the places where
\* the word `param=` begins, in any case
ParamPlaces(text, param) ==
    {i \in 1..(Len(text) - Len(param)) :
        /\ Upper(SubSeq(text, i, i + Len(param))) = Upper(param \o "=")
        /\ (i = 1 \/ SubSeq(text, i - 1, i - 1) = " ")}

\* match.group('value') of the first match: the text after `param=` up to a blank
ParamValue(text, param) ==
    LET i == CHOOSE j \in ParamPlaces(text, param) :
                 \A k \in ParamPlaces(text, param) : j <= k
    IN UntilBlank(SubSeq(text, i + Len(param) + 1, Len(text)))

\* _get_directive: the index of the first directive whose text starts with the
\* upper-cased command and which the expression matches, or 0
get_directive(m, command, param) ==
    LET hits == {i \in 1..Len(m.directives) :
                    /\ StartsWith(m.directives[i].text, Upper(command))
                    /\ ParamPlaces(m.directives[i].text, param) # {}}
    IN IF hits = {} THEN 0 ELSE CHOOSE i \in hits : \A k \in hits : i <= k

\* get_parameter: the value (the directive is m.directives[get_directive(..)])
get_parameter(m, param) ==
    LET i == get_directive(m, ".PARAM", param)
    IN IF i # 0
       THEN Outcome(m, "none", "", ParamValue(m.directives[i].text, param))
       ELSE Outcome(m, "ParameterNotFoundError", "not found in ASC file", "")

\* Text(coord=coord, text=text, size=2): a Text with the alignment it is born with
NewText(coord, text, size) ==
    [coord |-> coord, text |-> text, size |-> size,
     textAlignment |-> "LEFT", verticalAlignment |-> "CENTER"]

\* set_parameter: get_parameter's exception is not caught; `match` is the value
\* string get_parameter returned, so `match.group` raises when it is not empty
set_parameter(m, param, value) ==
    LET got == get_parameter(m, param)
        space == get_text_space(m)
    IN IF got.err # "none" THEN Outcome(m, got.err, got.msg, "")
       ELSE IF got.val # ""
       THEN Outcome(m, "AttributeError", "'str' object has no attribute 'group'", "")
       ELSE IF space.err # "none" THEN Outcome(m, space.err, "sheet", "")
       ELSE Outcome([m EXCEPT !.directives =
                        Append(@, NewText(<<space.x, space.y>>,
                                          ".param " \o param \o "=" \o StrOf(value), 2))],
                    "none", "", "")

\* add_instruction: `line_no, line = self._directives[i]` unpacks a Text, and
\* the append path uses self._asc_file_lines, which the editor never creates
add_instruction(m, instruction) ==
    LET stripped == Strip(instruction)
        command == Upper(FirstWord(stripped))
        space == get_text_space(m)
        append == IF space.err # "none" THEN Outcome(m, space.err, "sheet", "")
                  ELSE Outcome(m, "AttributeError", "no attribute '_asc_file_lines'", "")
    IN IF NoWords(stripped) THEN Outcome(m, "IndexError", "list index out of range", "")
       ELSE IF command \in UNIQUE_SIMULATION_DOT_INSTRUCTIONS
       THEN IF Len(m.directives) > 0
            THEN Outcome(m, "TypeError", "cannot unpack Text", "")
            ELSE append
       ELSE IF StartsWith(command, ".PARAM")
       THEN Outcome(m, "RuntimeError", "use set_parameter", "")
       ELSE append

\* remove_instruction
remove_instruction(m, instruction) ==
    IF Len(m.directives) > 0
    THEN Outcome(m, "TypeError", "cannot unpack Text", "")
    ELSE Outcome(m, "RuntimeError", "not found", "")

\* remove_Xinstruction: with no directive it logs the failure and returns
remove_Xinstruction(m, search_pattern) ==
    IF Len(m.directives) > 0
    THEN Outcome(m, "TypeError", "cannot unpack Text", "")
    ELSE Outcome(m, "none", "", "")

---------------------------------------------------------------------------
(* The files and the arguments the model draws from *)

\* the two lines every schematic written by the simulator starts with
Header == <<VersionLine("4"), SheetLine("plain", <<1, 880, 680>>)>>

\* the pieces an external edit appends to the file
Snippets ==
    { <<WireLine(0, 16, 32, 64)>>,
      <<FlagLine(32, 64, "out")>>,
      <<SymbolLine("res", 16, 0, "R0"), WindowLine("0", 8, 8, "Left", "2"),
        SymattrLine("InstName", "R1"), SymattrLine("Value", "1k")>>,
      <<SymbolLine("cap", 48, 0, "R90"), WindowLine("3", 8, 24, "VTop", "2"),
        SymattrLine("InstName", "C1")>>,
      <<TextLine(0, 80, "Left", 2, "!", ".tran 10m")>>,
      <<TextLine(-16, 96, "Right", 2, ";", " a note on .tran")>>,
      <<TextLine(0, 112, "Top", 2, "!", ".PARAM p=1 r=3")>>,
      <<TextLine(0, 8, "Center", 2, "!", ".ac dec 10")>>,
      <<SymbolLine("res", 16, 0, "R45"), SymattrLine("InstName", "R3")>>,
      <<SymbolLine("ind", 0, 0, "R0")>>,
      <<L("CIRCLE", <<0, 0, 8, 8>>, <<"Normal">>, "")>>,
      <<SymattrLine("Value", "5")>>,
      <<L("WIRE", <<0, 0, 16>>, <<>>, "")>>,
      <<VersionLine("3")>> }

\* component references: R1 has a Value, C1 has none, X9 is in no file
Refs == {"R1", "C1", "X9"}

\* values given to set_component_value and set_parameter
Values == {Str("2k"), Num(11000), Num(1500)}

\* parameter names: p and r are defined by a snippet, q by none
Params == {"p", "q"}

\* instructions given to add_instruction
Instructions == {".tran 1m", " .ac oct 5 ", ".meas x", ".param q=1", " "}

\* instructions given to remove_instruction
Removals == {".tran", "note", ".four"}

\* expressions given to remove_Xinstruction
Patterns == {"\\.tran.*"}

NoValue == Str("")

---------------------------------------------------------------------------
(* The editor *)

Ret(op, arg, value, err, msg, val) ==
    [op |-> op, arg |-> arg, value |-> value, err |-> err, msg |-> msg, val |-> val]

\* the model after a call is m
Becomes(m) ==
    /\ version' = m.version
    /\ sheet' = m.sheet
    /\ wires' = m.wires
    /\ labels' = m.labels
    /\ directives' = m.directives
    /\ components' = m.components

\* AscEditor(asc_file): the editor is built on a file it can read in full
Init ==
    /\ disk \in {<<>>, Header}
    /\ parts = 0
    /\ LET start == [version |-> InitVersion, sheet |-> InitSheet, wires |-> <<>>,
                     labels |-> <<>>, directives |-> <<>>, components |-> <<>>]
           ps == ParseFile(start, disk)
       IN /\ ps.err = "none"
          /\ version = ps.version
          /\ sheet = ps.sheet
          /\ wires = ps.wires
          /\ labels = ps.labels
          /\ directives = ps.directives
          /\ components = ps.components
    /\ ret = Ret("__init__", "", NoValue, "none", "", "")

\* another program (the schematic editor) appends records to the file
ExternalAppend(snippet) ==
    /\ parts < MaxParts
    /\ disk' = disk \o snippet
    /\ parts' = parts + 1
    /\ ret' = Ret("external", "", NoValue, "none", "", "")
    /\ UNCHANGED <<version, sheet, wires, labels, directives, components>>

\* editor.reset_netlist()
ResetNetlist ==
    \E ps \in {ParseFile(model, disk)} :
        /\ Becomes(ModelOf(ps))
        /\ ret' = Ret("reset_netlist", "", NoValue, ps.err, "", "")
        /\ UNCHANGED <<disk, parts>>

\* editor.save_netlist(editor.circuit_file)
SaveNetlist ==
    /\ disk' = Serialize(model)
    /\ ret' = Ret("save_netlist", "", NoValue, "none", "", "")
    /\ UNCHANGED <<parts, version, sheet, wires, labels, directives, components>>

\* a call of the mutation API with outcome out
Call(op, arg, value, out) ==
    \E o \in {out} :
        /\ Becomes(o.m)
        /\ ret' = Ret(op, arg, value, o.err, o.msg, o.val)
        /\ UNCHANGED <<disk, parts>>

GetComponentValue(element) ==
    Call("get_component_value", element, NoValue, get_component_value(model, element))

SetComponentValue(device, value) ==
    Call("set_component_value", device, value, set_component_value(model, device, value))

GetParameter(param) ==
    Call("get_parameter", param, NoValue, get_parameter(model, param))

SetParameter(param, value) ==
    Call("set_parameter", param, value, set_parameter(model, param, value))

AddInstruction(instruction) ==
    Call("add_instruction", instruction, NoValue, add_instruction(model, instruction))

RemoveInstruction(instruction) ==
    Call("remove_instruction", instruction, NoValue, remove_instruction(model, instruction))

RemoveXinstruction(search_pattern) ==
    Call("remove_Xinstruction", search_pattern, NoValue,
         remove_Xinstruction(model, search_pattern))

Next ==
    \/ \E snippet \in Snippets : ExternalAppend(snippet)
    \/ ResetNetlist
    \/ SaveNetlist
    \/ \E element \in Refs : GetComponentValue(element)
    \/ \E device \in Refs, value \in Values : SetComponentValue(device, value)
    \/ \E param \in Params : GetParameter(param)
    \/ \E param \in Params, value \in Values : SetParameter(param, value)
    \/ \E instruction \in Instructions : AddInstruction(instruction)
    \/ \E instruction \in Removals : RemoveInstruction(instruction)
    \/ \E search_pattern \in Patterns : RemoveXinstruction(search_pattern)

Spec == Init /\ [][Next]_vars

\* the pieces that matter to the component values: two components, one
\* without a Value, an attribute for the component last opened, a wire, a
\* flag, a directive, and a record the parser rejects
ValueSnippets ==
    {snippet \in Snippets :
        \/ snippet[1].kw \in {"WIRE", "FLAG", "CIRCLE", "SYMATTR"} /\ Len(snippet[1].n) # 3
        \/ snippet[1].kw = "SYMBOL" /\ Len(snippet) > 2
        \/ snippet[1].kw = "TEXT" /\ snippet[1].t = <<"Left", "!">>}

\* the editor used to read and set component values only
ValueNext ==
    \/ \E snippet \in ValueSnippets : ExternalAppend(snippet)
    \/ ResetNetlist
    \/ SaveNetlist
    \/ \E element \in Refs : GetComponentValue(element)
    \/ \E device \in Refs, value \in Values : SetComponentValue(device, value)

ValueSpec == Init /\ [][ValueNext]_vars

\* every piece, and two more about references: a component that takes the
\* InstName of another one, and a second InstName for the component last opened
ParseSnippets ==
    Snippets \cup {<<SymbolLine("ind", 80, 0, "R270"), SymattrLine("InstName", "R1")>>,
                   <<SymattrLine("InstName", "L1")>>}

\* the editor used to read and write files only
ParseNext ==
    \/ \E snippet \in ParseSnippets : ExternalAppend(snippet)
    \/ ResetNetlist
    \/ SaveNetlist

ParseSpec == Init /\ [][ParseNext]_vars

---------------------------------------------------------------------------
(* Properties *)

\* the model an editor holds before it reads its file
FreshModel ==
    [version |-> InitVersion, sheet |-> InitSheet, wires |-> <<>>,
     labels |-> <<>>, directives |-> <<>>, components |-> <<>>]

\* a file of the grammar: it starts with the Version and SHEET records, the
\* parser reads it to its end, and each TEXT record is one the parser accepts
WellFormed(file) ==
    /\ Len(file) >= 2
    /\ SubSeq(file, 1, 2) = Header
    /\ ParseFile(FreshModel, file).err = "none"
    /\ \A i \in 1..Len(file) : file[i].kw = "TEXT" => TEXT_REGEX_match(file[i])

\* the model read back from the file written for the model m
ReadBack(m) == ParseFile(FreshModel, Serialize(m))

\* C1: a model parsed from a well-formed file is equal, in every field, to
\* the model parsed from the file save_netlist writes for it.
C1_RoundTrip ==
    (ret.op = "reset_netlist" /\ ret.err = "none" /\ WellFormed(disk))
        => (ReadBack(model).err = "none" /\ ModelOf(ReadBack(model)) = model)

\* the directive is of a unique kind
UniqueKind(text) ==
    ~NoWords(text) /\ Upper(FirstWord(text)) \in UNIQUE_SIMULATION_DOT_INSTRUCTIONS

\* the indices of the directives of a unique kind
UniqueDirectives(ds) == {i \in 1..Len(ds) : UniqueKind(ds[i].text)}

\* C2: add_instruction with a unique-kind instruction, when a directive of a
\* unique kind exists, raises nothing, keeps the number of directives, and
\* puts the instruction in the existing directive, whose position stays.
C2_Uniqueness ==
    [][(ret'.op = "add_instruction" /\ UniqueKind(ret'.arg)
            /\ UniqueDirectives(directives) # {})
        => /\ ret'.err = "none"
           /\ Len(directives') = Len(directives)
           /\ \E i \in UniqueDirectives(directives) :
                 /\ directives'[i].text = Strip(ret'.arg)
                 /\ directives'[i].coord = directives[i].coord
           /\ Cardinality(UniqueDirectives(directives')) = 1]_vars

\* ds2 is ds1 with one directive appended
AppendsOne(ds1, ds2) ==
    Len(ds2) = Len(ds1) + 1 /\ SubSeq(ds2, 1, Len(ds1)) = ds1

\* C3: add_instruction with an instruction that is neither unique nor .PARAM
\* raises nothing and appends one active directive holding the instruction at
\* the point _get_text_space gives; the earlier directives stay.
C3_NonUniqueAccumulation ==
    [][(ret'.op = "add_instruction" /\ ~NoWords(ret'.arg) /\ ~UniqueKind(ret'.arg)
            /\ ~StartsWith(Upper(FirstWord(ret'.arg)), ".PARAM"))
        => /\ ret'.err = "none"
           /\ AppendsOne(directives, directives')
           /\ directives'[Len(directives')].text = Strip(ret'.arg)
           /\ directives'[Len(directives')].size > 0
           /\ directives'[Len(directives')].coord =
                  <<get_text_space(model).x, get_text_space(model).y>>]_vars

\* the directive text defines the parameter
DefinesParam(text, param) ==
    StartsWith(Upper(text), ".PARAM") /\ ParamPlaces(text, param) # {}

\* the indices of the directives defining the parameter
Definers(ds, param) == {i \in 1..Len(ds) : DefinesParam(ds[i].text, param)}

\* the string a value is stored as
Rendered(value) == IF value.num THEN format_eng(value.n) ELSE value.s

\* C4: set_parameter of a parameter no directive defines raises nothing,
\* appends one directive defining it at the point _get_text_space gives, and
\* changes nothing else; get_parameter then finds the parameter.
C4_ParameterAppend ==
    [][(ret'.op = "set_parameter" /\ Definers(directives, ret'.arg) = {})
        => /\ ret'.err = "none"
           /\ AppendsOne(directives, directives')
           /\ DefinesParam(directives'[Len(directives')].text, ret'.arg)
           /\ directives'[Len(directives')].coord =
                  <<get_text_space(model).x, get_text_space(model).y>>
           /\ UNCHANGED <<wires, labels, components>>
           /\ get_parameter(model', ret'.arg).err = "none"]_vars

\* C5: set_parameter of a parameter a directive defines raises nothing,
\* changes that directive's text only, keeps the number and order of the
\* directives; get_parameter then returns the new value.
C5_ParameterUpdate ==
    [][(ret'.op = "set_parameter" /\ Definers(directives, ret'.arg) # {})
        => /\ ret'.err = "none"
           /\ Len(directives') = Len(directives)
           /\ \A i \in 1..Len(directives) :
                 /\ directives'[i].coord = directives[i].coord
                 /\ directives'[i].size = directives[i].size
                 /\ directives'[i].textAlignment = directives[i].textAlignment
                 /\ directives'[i].verticalAlignment = directives[i].verticalAlignment
                 /\ i \notin Definers(directives, ret'.arg)
                        => directives'[i] = directives[i]
           /\ get_parameter(model', ret'.arg).val = Rendered(ret'.value)]_vars

ValueCalls == {"get_component_value", "set_component_value"}

\* C6: an absent reference raises ComponentNotFoundError, an undefined
\* parameter raises ParameterNotFoundError, a component without a Value raises
\* an error of a third kind, and each of these failures leaves the model as it was.
C6_ErrorDiscrimination ==
    [][/\ (ret'.op \in ValueCalls /\ IndexOfRef(components, ret'.arg) = 0)
            => (ret'.err = "ComponentNotFoundError" /\ model' = model)
       /\ (ret'.op = "get_parameter" /\ Definers(directives, ret'.arg) = {})
            => (ret'.err = "ParameterNotFoundError" /\ model' = model)
       /\ (ret'.op \in ValueCalls /\ IndexOfRef(components, ret'.arg) # 0
              /\ ~HasValue(components[IndexOfRef(components, ret'.arg)]))
            => (ret'.err \notin {"none", "ComponentNotFoundError", "ParameterNotFoundError"}
                /\ model' = model)]_vars

\* the TEXT records of a file that the parser accepts, in file order
AcceptedTexts(file) == SelectSeq(file, TEXT_REGEX_match)

\* C7: a TEXT record tagged ! of size n is read as a directive of size +n and
\* one tagged ; as a directive of size -n; a directive of size +n is written
\* with size n and tag !, and a directive of size -n with size n and tag ;.
C7_SignConvention ==
    /\ (ret.op = "reset_netlist" /\ ret.err = "none")
        => /\ Len(directives) = Len(AcceptedTexts(disk))
           /\ \A i \in 1..Len(directives) :
                 LET line == AcceptedTexts(disk)[i]
                 IN directives[i].size =
                        IF line.t[2] = "!" THEN line.n[3] ELSE -line.n[3]
    /\ \A i \in 1..Len(directives) :
          LET line == DirectiveLine(directives[i])
          IN /\ line.kw = "TEXT"
             /\ directives[i].size > 0 => (line.n[3] = directives[i].size /\ line.t[2] = "!")
             /\ directives[i].size < 0 => (line.n[3] = -directives[i].size /\ line.t[2] = ";")

\* C8: a reset_netlist that raises leaves the model exactly as it was.
C8_ParseAtomicity ==
    [][(ret'.op = "reset_netlist" /\ ret'.err # "none") => model' = model]_vars

\* C9: remove_instruction(s) removes all the directives whose text contains s
\* and keeps the others in order; with no such directive it raises and the
\* model stays.
C9_RemoveInstruction ==
    [][ret'.op = "remove_instruction"
        => LET Keeps(d) == ~Contains(d.text, ret'.arg)
           IN IF \E i \in 1..Len(directives) : Contains(directives[i].text, ret'.arg)
              THEN /\ ret'.err = "none"
                   /\ directives' = SelectSeq(directives, Keeps)
                   /\ UNCHANGED <<version, sheet, wires, labels, components>>
              ELSE ret'.err # "none" /\ model' = model]_vars

\* the attributes other than Value
OtherAttributes(c) ==
    LET NotValue(a) == a.name # "Value" IN SelectSeq(c.attributes, NotValue)

\* C10: set_component_value on a component that has a Value raises nothing
\* and stores the string itself, or format_eng of the number, as its Value:
\* get_component_value returns it and the file save_netlist writes holds
\* it in the SYMATTR Value line of that component; nothing else of the
\* model changes.
C10_SetComponentValue ==
    [][(ret'.op = "set_component_value" /\ IndexOfRef(components, ret'.arg) # 0
            /\ HasValue(components[IndexOfRef(components, ret'.arg)]))
        => \E i \in {IndexOfRef(components, ret'.arg)},
              stored \in {Rendered(ret'.value)},
              got \in {get_component_value(model', ret'.arg)},
              written \in {Serialize(model')} :
           \E old \in {components[i]}, new \in {components'[i]} :
           \E lines \in {ComponentLines(new)} :
              LET ValueLine(l) == l.kw = "SYMATTR" /\ l.t[1] = "Value"
              IN /\ ret'.err = "none"
                 /\ got.err = "none"
                 /\ got.val = stored
                 /\ SelectSeq(lines, ValueLine) = <<SymattrLine("Value", stored)>>
                 /\ \E a \in 1..Len(written) :
                       SubSeq(written, a, a + Len(lines) - 1) = lines
                 /\ Len(components') = Len(components)
                 /\ \A j \in 1..Len(components) :
                       j # i => components'[j] = components[j]
                 /\ new.reference = old.reference
                 /\ new.symbol = old.symbol
                 /\ new.position = old.position
                 /\ new.rotation = old.rotation
                 /\ OtherAttributes(new) = OtherAttributes(old)
                 /\ Len(new.attributes) = Len(old.attributes)
                 /\ UNCHANGED <<version, sheet, wires, labels, directives>>]_vars

\* a numeric value has been stored in engineering notation: 11000 as 11k
C10_Witness ==
    /\ ret.op = "set_component_value"
    /\ ret.err = "none"
    /\ ret.value = Num(11000)
    /\ get_component_value(model, ret.arg).val = "11k"
    /\ \E i \in 1..Len(Serialize(model)) :
          Serialize(model)[i] = SymattrLine("Value", "11k")

\* the records of a file that start with the keyword kw
RecordsOf(file, kw) == SelectSeq(file, LAMBDA line : line.kw = kw)

Keywords == {"Version", "SHEET", "WIRE", "FLAG", "SYMBOL", "WINDOW", "SYMATTR", "TEXT"}

\* C11: a reset_netlist that returns without an error has taken every line
\* of the file into the model: every keyword is a known one, and the model
\* holds one wire per WIRE record, one label per FLAG record and one
\* directive per TEXT record; no line is dropped without an error.
C11_ClosedGrammar ==
    (ret.op = "reset_netlist" /\ ret.err = "none")
        => /\ \A i \in 1..Len(disk) : disk[i].kw \in Keywords
           /\ Len(wires) = Len(RecordsOf(disk, "WIRE"))
           /\ Len(labels) = Len(RecordsOf(disk, "FLAG"))
           /\ Len(directives) = Len(RecordsOf(disk, "TEXT"))

\* the places of the SYMBOL records of a file
SymbolRecords(file) == {i \in 1..Len(file) : file[i].kw = "SYMBOL"}

\* the places of the InstName attributes given for the SYMBOL record at i:
\* those after it and before the next SYMBOL record
InstNames(file, i) ==
    {j \in (i + 1)..Len(file) :
        /\ file[j].kw = "SYMATTR"
        /\ Len(file[j].t) = 2
        /\ file[j].t[1] = "InstName"
        /\ \A k \in (i + 1)..j : file[k].kw # "SYMBOL"}

\* the InstName given for the SYMBOL record at i (the last one, if several)
InstNameOf(file, i) ==
    LET last == CHOOSE j \in InstNames(file, i) : \A k \in InstNames(file, i) : k <= j
    IN Strip(file[last].t[2])

\* the entry of the component map is the one the SYMBOL record at i describes
EntryOf(c, file, i) ==
    /\ c.reference = InstNameOf(file, i)
    /\ c.symbol = file[i].t[1]
    /\ c.position = file[i].n
    /\ c.rotation = ASC_ROTATION_DICT(file[i].t[2])

\* a SYMBOL record without an InstName makes the parse fail
MissingInstNameFails ==
    (ret.op = "reset_netlist" /\ \E i \in SymbolRecords(disk) : InstNames(disk, i) = {})
        => ret.err # "none"

\* C12 (as stated): after a successful parse every SYMBOL record has exactly
\* one entry of the component map, keyed by its InstName, so there are as
\* many components as SYMBOL records; and a SYMBOL record without an
\* InstName makes the parse fail.
C12_NoComponentDropped ==
    /\ MissingInstNameFails
    /\ (ret.op = "reset_netlist" /\ ret.err = "none")
          => /\ Len(components) = Cardinality(SymbolRecords(disk))
             /\ \A i \in SymbolRecords(disk) :
                   \E k \in 1..Len(components) : EntryOf(components[k], disk, i)

\* the SYMBOL records whose InstName no later SYMBOL record gives again
LastOfName(file) ==
    {i \in SymbolRecords(file) :
        \A j \in SymbolRecords(file) :
            j > i => InstNameOf(file, j) # InstNameOf(file, i)}

\* C12 (amended): after a successful parse the component map has exactly one
\* entry for every SYMBOL record whose InstName no later SYMBOL record gives
\* again, the last open component included, and no other entry; references
\* are unique, and there are as many components as SYMBOL records when the
\* InstNames are all different. A SYMBOL record without an InstName makes
\* the parse fail.
C12_LastOfNameKept ==
    /\ MissingInstNameFails
    /\ (ret.op = "reset_netlist" /\ ret.err = "none")
          => /\ Len(components) = Cardinality(LastOfName(disk))
             /\ \A i \in LastOfName(disk) :
                   \E k \in 1..Len(components) : EntryOf(components[k], disk, i)
             /\ \A k, l \in 1..Len(components) :
                   components[k].reference = components[l].reference => k = l
             /\ LastOfName(disk) = SymbolRecords(disk)
                   => Len(components) = Cardinality(SymbolRecords(disk))

\* a file of two SYMBOL records with different InstNames has been parsed,
\* the second one committed at the end of the input
C12_Witness ==
    /\ ret.op = "reset_netlist"
    /\ ret.err = "none"
    /\ Cardinality(SymbolRecords(disk)) = 2
    /\ disk[Len(disk)].kw = "SYMATTR"
    /\ Len(components) = 2

\* the points of a model that has a sheet: the sheet origin, both ends of
\* every wire, and the places of the flags, directives and components
PointsOf(m) ==
    {<<m.sheet.f[2], m.sheet.f[3]>>}
        \cup {m.wires[i].V1 : i \in 1..Len(m.wires)}
        \cup {m.wires[i].V2 : i \in 1..Len(m.wires)}
        \cup {m.labels[i].coord : i \in 1..Len(m.labels)}
        \cup {m.directives[i].coord : i \in 1..Len(m.directives)}
        \cup {m.components[i].position : i \in 1..Len(m.components)}

\* the points but the sheet origin
ElementPointsOf(m) == PointsOf(m) \ {<<m.sheet.f[2], m.sheet.f[3]>>}

\* C13: for a model obtained by parsing a file, the point _get_text_space
\* returns has the least x over the points of the model and a y greater
\* than the y of every wire end, flag, directive and component (it is 24
\* under the greatest of them), so its x is not greater than the x of any of
\* them.
C13_FreeSpace ==
    (ret.op = "reset_netlist" /\ ret.err = "none" /\ get_text_space(model).err = "none")
        => \E space \in {get_text_space(model)} :
              /\ \A p \in ElementPointsOf(model) : space.y > p[2] /\ space.x <= p[1]
              /\ \E p \in PointsOf(model) : space.x = p[1]
              /\ \A p \in PointsOf(model) : space.x <= p[1]

====
